---- MODULE Spec2Model ----
(***************************************************************************)
(* Model of inbox/sqlalchemy_ext/util.py: the windowed table scan          *)
(* safer_yield_per, the base-36 public id codec (int128_to_b36 and         *)
(* b36_to_bin) and the change tracking containers MutableDict and          *)
(* MutableList.                                                            *)
(***************************************************************************)
EXTENDS Integers, Sequences, FiniteSets, TLC

VARIABLES
    \* ---- safer_yield_per ----
    altMap,     \* the second column of the table, as a function of the row id
    source,     \* the rows the query ranges over: records [id, alt]
    idField,    \* the id_field argument: the column used for windowing
    startId,    \* the start_id argument
    count,      \* the count argument
    cur_id,     \* the local cur_id
    results,    \* the local results (the current window)
    idx,        \* how many rows of results the for loop has yielded
    pc,         \* position of the generator
    yielded,    \* history: the rows handed to the consumer, in order
    fetchLog,   \* history: one entry [cur, rows] per query issued
    inserted,   \* history: [row, cur] for each row inserted during the scan
    mutations,  \* history: number of concurrent inserts and deletes so far
    \* ---- codec ----
    cinput,     \* the argument given to int128_to_b36
    encoded,    \* outcome of int128_to_b36(cinput)
    decoded,    \* outcome of b36_to_bin(encoded value)
    cpc,        \* position of the codec round trip
    \* ---- tracked containers ----
    d,          \* contents of a MutableDict
    dsnap,      \* its contents at the last changed() call
    l,          \* contents of a MutableList
    lsnap,      \* its contents at the last changed() call
    lastOp      \* name of the last container operation that returned normally

scanVars == <<altMap, source, idField, startId, count, cur_id, results, idx, pc,
              yielded, fetchLog, inserted, mutations>>
codecVars == <<cinput, encoded, decoded, cpc>>
mutVars == <<d, dsnap, l, lsnap, lastOp>>
vars == <<scanVars, codecVars, mutVars>>

(***************************************************************************)
(* Bounds of the model.                                                    *)
(***************************************************************************)
MaxId == 5            \* row ids range over 1..MaxId
MaxCount == 3         \* count ranges over 1..MaxCount
MaxOffset == 1        \* the alternative column is id + off, |off| <= MaxOffset
MaxMutations == 2     \* concurrent inserts/deletes during one scan

Ids == 1..MaxId
\* Queries issued by one scan of the model: enough for every scan over a
\* column equal to the id (at most one window per row plus the empty one).
MaxFetches == MaxId + 2

(***************************************************************************)
(* safer_yield_per                                                         *)
(***************************************************************************)
\* The alternative windowing columns: injective maps from id to value.
IdColumn == [i \in Ids |-> i]
AltMaps == {[i \in Ids |-> i + off] : off \in (0 - MaxOffset)..MaxOffset}
           \cup {[i \in Ids |-> MaxId + 1 - i]}

Row(i, alt) == [id |-> i, alt |-> alt[i]]

\* Value of the windowing column id_field on a row.
Key(r, f) == IF f = "id" THEN r.id ELSE r.alt

\* query.filter(id_field >= cur_id)
FilterStrict(src, f, cur) == {r \in src : Key(r, f) > cur}
FilterAll(src, f, cur) == src
Filter(src, f, cur) == {r \in src : Key(r, f) >= cur}

\* .order_by(id_field): ascending by the column (values are unique).
RECURSIVE OrderBy(_, _)
OrderBy(S, f) ==
    IF S = {} THEN <<>>
    ELSE LET m == CHOOSE r \in S : \A q \in S : Key(r, f) <= Key(q, f)
         IN  <<m>> \o OrderBy(S \ {m}, f)

\* .limit(count)
LimitNone(s, n) == s
LimitOffByOne(s, n) == IF Len(s) <= n + 1 THEN s ELSE SubSeq(s, 1, n + 1)
Limit(s, n) == IF Len(s) <= n THEN s ELSE SubSeq(s, 1, n)

\* query.filter(id_field >= cur_id).order_by(id_field).limit(count).all()
Query(src, f, cur, n) == Limit(OrderBy(Filter(src, f, cur), f), n)

\* results[-1].id + 1
NextCursorNoInc(res) == res[Len(res)].id
NextCursor(res) == res[Len(res)].id + 1

\* The while loop's query and the `if not results: return` test.
FetchStopShort ==
    /\ pc = "fetch"
    /\ Len(fetchLog) < MaxFetches
    /\ LET res == Query(source, idField, cur_id, count)
       IN  /\ results' = res
           /\ fetchLog' = Append(fetchLog, [cur |-> cur_id, rows |-> res])
           /\ pc' = IF Len(res) < count THEN "done" ELSE "yield"
    /\ idx' = 0
    /\ UNCHANGED <<altMap, source, idField, startId, count, cur_id, yielded, inserted,
                   mutations, codecVars, mutVars>>

Fetch ==
    /\ pc = "fetch"
    /\ Len(fetchLog) < MaxFetches
    /\ LET res == Query(source, idField, cur_id, count)
       IN  /\ results' = res
           /\ fetchLog' = Append(fetchLog, [cur |-> cur_id, rows |-> res])
           /\ pc' = IF res = <<>> THEN "done" ELSE "yield"
    /\ idx' = 0
    /\ UNCHANGED <<altMap, source, idField, startId, count, cur_id, yielded, inserted,
                   mutations, codecVars, mutVars>>

\* for result in results: yield result
Yield ==
    /\ pc = "yield"
    /\ idx < Len(results)
    /\ yielded' = Append(yielded, results[idx + 1])
    /\ idx' = idx + 1
    /\ pc' = IF idx + 1 = Len(results) THEN "advance" ELSE "yield"
    /\ UNCHANGED <<altMap, source, idField, startId, count, cur_id, results, fetchLog,
                   inserted, mutations, codecVars, mutVars>>

\* cur_id = results[-1].id + 1, then back to the top of the loop
Advance ==
    /\ pc = "advance"
    /\ cur_id' = NextCursor(results)
    /\ pc' = "fetch"
    /\ UNCHANGED <<altMap, source, idField, startId, count, results, idx, yielded,
                   fetchLog, inserted, mutations, codecVars, mutVars>>

\* Another transaction inserts a row while the generator is suspended or
\* between two of its statements. `inserted` records the row and the value
\* of cur_id at that moment.
InsertRow ==
    /\ pc \in {"fetch", "yield", "advance"}
    /\ mutations < MaxMutations
    /\ \E i \in Ids :
        /\ \A r \in source : r.id # i
        /\ source' = source \cup {Row(i, altMap)}
        /\ inserted' = inserted \cup {[row |-> Row(i, altMap), cur |-> cur_id]}
    /\ mutations' = mutations + 1
    /\ UNCHANGED <<altMap, idField, startId, count, cur_id, results, idx, pc, yielded,
                   fetchLog, codecVars, mutVars>>

\* Another transaction deletes a row.
DeleteRow ==
    /\ pc \in {"fetch", "yield", "advance"}
    /\ mutations < MaxMutations
    /\ \E r \in source : source' = source \ {r}
    /\ mutations' = mutations + 1
    /\ UNCHANGED <<altMap, idField, startId, count, cur_id, results, idx, pc, yielded,
                   fetchLog, inserted, codecVars, mutVars>>

(***************************************************************************)
(* The public id codec.  Python integers are unbounded, and a public id    *)
(* has 128 bits, so an integer is modelled as the sequence of its base-256 *)
(* digits, most significant first (leading zeros allowed); a byte string   *)
(* is the sequence of its bytes; a text string the sequence of its         *)
(* characters.                                                             *)
(***************************************************************************)
IdBytes == 16         \* len(int128) == 16
WordBytes == 8        \* struct format Q: an unsigned 64-bit word
Base == 36

Zeros(n) == [i \in 1..n |-> 0]

RECURSIVE StripZeros(_)
StripZeros(x) ==
    IF x # <<>> /\ x[1] = 0 THEN StripZeros(Tail(x)) ELSE x

\* x padded on the left (or cut on the left, dropping high digits) to n digits
Resize(x, n) ==
    IF Len(x) >= n THEN SubSeq(x, Len(x) - n + 1, Len(x))
    ELSE Zeros(n - Len(x)) \o x

RECURSIVE OrByte(_, _)
OrByte(a, b) ==
    IF a = 0 THEN b
    ELSE IF b = 0 THEN a
    ELSE 2 * OrByte(a \div 2, b \div 2)
         + (IF a % 2 = 1 \/ b % 2 = 1 THEN 1 ELSE 0)

RECURSIVE AndByte(_, _)
AndByte(a, b) ==
    IF a = 0 \/ b = 0 THEN 0
    ELSE 2 * AndByte(a \div 2, b \div 2)
         + (IF a % 2 = 1 /\ b % 2 = 1 THEN 1 ELSE 0)

WiderLen(x, y) == IF Len(x) >= Len(y) THEN Len(x) ELSE Len(y)

\* x | y
BitOr(x, y) ==
    LET n == WiderLen(x, y)
    IN  [i \in 1..n |-> OrByte(Resize(x, n)[i], Resize(y, n)[i])]

\* x & y
BitAnd(x, y) ==
    LET n == WiderLen(x, y)
    IN  [i \in 1..n |-> AndByte(Resize(x, n)[i], Resize(y, n)[i])]

\* x << 64 and x >> 64 (64 bits are WordBytes digits)
ShiftLeft64(x) == x \o Zeros(WordBytes)
ShiftRight64(x) ==
    IF Len(x) <= WordBytes THEN <<>> ELSE SubSeq(x, 1, Len(x) - WordBytes)

\* MAX_INT64 = 0xFFFFFFFFFFFFFFFF
MAX_INT64 == [i \in 1..WordBytes |-> 255]

\* struct.unpack('>QQ', int128): two big-endian unsigned 64-bit words
Unpack(bytes) ==
    <<SubSeq(bytes, 1, WordBytes), SubSeq(bytes, WordBytes + 1, 2 * WordBytes)>>

\* struct.pack('>QQ', hi, lo), for hi and lo below 2^64
Pack(hi, lo) == Resize(hi, WordBytes) \o Resize(lo, WordBytes)

\* divmod(number, 36) by long division: <<quotient, remainder>>
RECURSIVE DivMod36(_, _, _)
DivMod36(x, i, acc) ==
    IF i > Len(x) THEN acc
    ELSE LET t == acc[2] * 256 + x[i]
         IN  DivMod36(x, i + 1, <<Append(acc[1], t \div Base), t % Base>>)

\* number * 36 + digit
RECURSIVE MulAdd36(_, _, _)
MulAdd36(x, i, carry) ==
    IF i = 0 THEN (IF carry = 0 THEN <<>> ELSE <<carry>>)
    ELSE LET t == x[i] * Base + carry
         IN  Append(MulAdd36(x, i - 1, t \div 256), t % 256)

Alphabet == <<"0", "1", "2", "3", "4", "5", "6", "7", "8", "9",
              "A", "B", "C", "D", "E", "F", "G", "H", "I", "J", "K", "L", "M",
              "N", "O", "P", "Q", "R", "S", "T", "U", "V", "W", "X", "Y", "Z">>
LowerAlphabet == <<"0", "1", "2", "3", "4", "5", "6", "7", "8", "9",
                   "a", "b", "c", "d", "e", "f", "g", "h", "i", "j", "k", "l", "m",
                   "n", "o", "p", "q", "r", "s", "t", "u", "v", "w", "x", "y", "z">>

\* base36encode(number): the base-36 digits of number, "0" for zero
RECURSIVE Base36Digits(_)
Base36Digits(x) ==
    LET y == StripZeros(x)
    IN  IF y = <<>> THEN <<>>
        ELSE LET qr == DivMod36(y, 1, <<(<<>>), 0>>)
             IN  Append(Base36Digits(qr[1]), Alphabet[qr[2] + 1])

base36encode(number) ==
    IF Base36Digits(number) = <<>> THEN <<Alphabet[1]>> ELSE Base36Digits(number)

\* str.lower()
LowerChar(c) ==
    IF \E k \in 1..Base : Alphabet[k] = c
    THEN LowerAlphabet[CHOOSE k \in 1..Base : Alphabet[k] = c]
    ELSE c
Lower(text) == [i \in 1..Len(text) |-> LowerChar(text[i])]

\* value of a base-36 digit character, either case; -1 when it is none
DigitValue(c) ==
    IF \E k \in 1..Base : Alphabet[k] = c \/ LowerAlphabet[k] = c
    THEN (CHOOSE k \in 1..Base : Alphabet[k] = c \/ LowerAlphabet[k] = c) - 1
    ELSE 0 - 1

\* base36decode(number) = int(number, 36), for a non-empty string of digits
RECURSIVE base36decode(_)
base36decode(text) ==
    IF text = <<>> THEN <<>>
    ELSE LET hd == base36decode(SubSeq(text, 1, Len(text) - 1))
         IN  MulAdd36(hd, Len(hd), DigitValue(text[Len(text)]))

\* Values and outcomes: kind is "None", "bytes", "str" or "raise".
NoneValue == [kind |-> "None", bytes |-> <<>>, text |-> <<>>, err |-> ""]
BytesValue(b) == [kind |-> "bytes", bytes |-> b, text |-> <<>>, err |-> ""]
StrValue(t) == [kind |-> "str", bytes |-> <<>>, text |-> t, err |-> ""]
Raise(e) == [kind |-> "raise", bytes |-> <<>>, text |-> <<>>, err |-> e]

\* `not x` for None, a byte string or a text string
Falsy(v) == v.kind = "None" \/ (v.bytes = <<>> /\ v.text = <<>>)

int128_to_b36_NoAssert(int128) ==
    IF Falsy(int128) THEN NoneValue
    ELSE IF Len(int128.bytes) # IdBytes THEN Raise("struct.error")
    ELSE LET a == Unpack(int128.bytes)[1]
             b == Unpack(int128.bytes)[2]
             pub_id == BitOr(ShiftLeft64(a), b)
         IN  StrValue(Lower(base36encode(pub_id)))

int128_to_b36(int128) ==
    IF Falsy(int128) THEN NoneValue
    ELSE IF Len(int128.bytes) # IdBytes THEN Raise("AssertionError")
    ELSE LET a == Unpack(int128.bytes)[1]
             b == Unpack(int128.bytes)[2]
             pub_id == BitOr(ShiftLeft64(a), b)
         IN  StrValue(Lower(base36encode(pub_id)))

b36_to_bin_NoShift(b36_string) ==
    IF b36_string.kind # "str" THEN Raise("TypeError")
    ELSE IF b36_string.text = <<>>
            \/ \E i \in 1..Len(b36_string.text) :
                  DigitValue(b36_string.text[i]) < 0
         THEN Raise("ValueError")
    ELSE LET int128 == base36decode(b36_string.text)
         IN  BytesValue(Pack(BitAnd(int128, MAX_INT64),
                             BitAnd(int128, MAX_INT64)))

b36_to_bin(b36_string) ==
    IF b36_string.kind # "str" THEN Raise("TypeError")
    ELSE IF b36_string.text = <<>>
            \/ \E i \in 1..Len(b36_string.text) :
                  DigitValue(b36_string.text[i]) < 0
         THEN Raise("ValueError")
    ELSE LET int128 == base36decode(b36_string.text)
         IN  BytesValue(Pack(BitAnd(ShiftRight64(int128), MAX_INT64),
                             BitAnd(int128, MAX_INT64)))

\* The inputs of the round trip: None, byte strings of every length up to
\* MaxInputLen, and 16-byte values built from two sampled 64-bit words.
MaxSample == 1        \* sample byte values: 0..MaxSample and 255-MaxSample..255
MaxInputLen == 17     \* byte strings of every length up to this one

SampleBytes == (0..MaxSample) \cup {255 - k : k \in 0..MaxSample}
FillBytes == {0, 165, 255}
\* 64-bit words: one sampled byte at any position among equal fill bytes
Words ==
    {[i \in 1..WordBytes |-> IF i = p THEN v ELSE f] :
        p \in 1..WordBytes, v \in SampleBytes, f \in FillBytes}
CodecInputs ==
    {NoneValue}
    \cup {BytesValue(hi \o lo) : hi \in Words, lo \in Words}
    \cup {BytesValue([i \in 1..n |-> f]) : n \in 0..MaxInputLen, f \in FillBytes}

\* value = int128_to_b36(cinput)
Encode ==
    /\ cpc = "start"
    /\ encoded' = int128_to_b36(cinput)
    /\ cpc' = "encoded"
    /\ UNCHANGED <<cinput, decoded, scanVars, mutVars>>

\* b36_to_bin(value), when int128_to_b36 returned a value
Decode ==
    /\ cpc = "encoded"
    /\ encoded.kind # "raise"
    /\ decoded' = b36_to_bin(encoded)
    /\ cpc' = "decoded"
    /\ UNCHANGED <<cinput, encoded, scanVars, mutVars>>

(***************************************************************************)
(* MutableDict and MutableList.  d and l are the contents of one tracked   *)
(* dict and one tracked list; dsnap and lsnap are the contents at the last *)
(* changed() call (at construction: the initial contents).  A call that    *)
(* raises before it modifies anything (KeyError, IndexError, ValueError)   *)
(* leaves the state as it is and is modelled by the action's guard.        *)
(***************************************************************************)
MaxListLen == 2       \* lists hold at most this many items
MaxVal == 2           \* values stored in the containers: 1..MaxVal

DKeys == {"a", "b"}
Vals == 1..MaxVal
Dicts == UNION {[K -> Vals] : K \in SUBSET DKeys}
Lists == UNION {[1..n -> Vals] : n \in 0..MaxListLen}
EmptyDict == [k \in {} |-> 1]

DictSet(m, k, v) == [x \in DOMAIN m \cup {k} |-> IF x = k THEN v ELSE m[x]]
DictDel(m, k) == [x \in DOMAIN m \ {k} |-> m[x]]
DictMerge(m, o) == [x \in DOMAIN m \cup DOMAIN o |-> IF x \in DOMAIN o THEN o[x] ELSE m[x]]

\* MutableDict.__setitem__: dict.__setitem__ then self.changed()
DictSetItem ==
    /\ \E k \in DKeys, v \in Vals : d' = DictSet(d, k, v)
    /\ dsnap' = d'
    /\ lastOp' = "dict.__setitem__"
    /\ UNCHANGED <<l, lsnap, scanVars, codecVars>>

\* MutableDict.__delitem__: dict.__delitem__ then self.changed()
DictDelItem ==
    /\ \E k \in DOMAIN d : d' = DictDel(d, k)
    /\ dsnap' = d'
    /\ lastOp' = "dict.__delitem__"
    /\ UNCHANGED <<l, lsnap, scanVars, codecVars>>

\* MutableDict.update: self[k] = v for every item of the argument, each of
\* which calls changed(); with no item nothing is set and nothing is called.
DictUpdate ==
    /\ \E o \in Dicts :
        /\ d' = DictMerge(d, o)
        /\ dsnap' = IF DOMAIN o = {} THEN dsnap ELSE d'
    /\ lastOp' = "dict.update"
    /\ UNCHANGED <<l, lsnap, scanVars, codecVars>>

\* MutableDict.__setstate__: self.update(state)
DictSetState ==
    /\ \E o \in Dicts :
        /\ d' = DictMerge(d, o)
        /\ dsnap' = IF DOMAIN o = {} THEN dsnap ELSE d'
    /\ lastOp' = "dict.__setstate__"
    /\ UNCHANGED <<l, lsnap, scanVars, codecVars>>

\* dict.clear, not overridden by MutableDict: no changed() call
DictClear ==
    /\ d' = EmptyDict
    /\ lastOp' = "dict.clear"
    /\ UNCHANGED <<dsnap, l, lsnap, scanVars, codecVars>>

\* dict.pop(key, default), not overridden
DictPop ==
    /\ \E k \in DKeys : d' = DictDel(d, k)
    /\ lastOp' = "dict.pop"
    /\ UNCHANGED <<dsnap, l, lsnap, scanVars, codecVars>>

\* dict.popitem, not overridden
DictPopItem ==
    /\ \E k \in DOMAIN d : d' = DictDel(d, k)
    /\ lastOp' = "dict.popitem"
    /\ UNCHANGED <<dsnap, l, lsnap, scanVars, codecVars>>

\* dict.setdefault(key, default), not overridden: it stores without going
\* through __setitem__
DictSetDefault ==
    /\ \E k \in DKeys, v \in Vals :
        d' = IF k \in DOMAIN d THEN d ELSE DictSet(d, k, v)
    /\ lastOp' = "dict.setdefault"
    /\ UNCHANGED <<dsnap, l, lsnap, scanVars, codecVars>>

\* s[0:i] + values + s[j:], for 0 <= i <= j <= len(s)
Splice(s, i, j, values) == SubSeq(s, 1, i) \o values \o SubSeq(s, j + 1, Len(s))

RECURSIVE Sorted(_)
Sorted(s) ==
    IF s = <<>> THEN <<>>
    ELSE LET k == CHOOSE i \in 1..Len(s) : \A j \in 1..Len(s) : s[i] <= s[j]
         IN  <<s[k]>> \o Sorted(Splice(s, k - 1, k, <<>>))
Reversed(s) == [i \in 1..Len(s) |-> s[Len(s) + 1 - i]]

\* MutableList.__setitem__
ListSetItem ==
    /\ \E i \in 1..Len(l), v \in Vals : l' = [l EXCEPT ![i] = v]
    /\ lsnap' = l'
    /\ lastOp' = "list.__setitem__"
    /\ UNCHANGED <<d, dsnap, scanVars, codecVars>>

\* MutableList.__setslice__
ListSetSlice ==
    /\ \E i \in 0..Len(l), j \in 0..Len(l), values \in Lists :
        /\ i <= j
        /\ Len(Splice(l, i, j, values)) <= MaxListLen
        /\ l' = Splice(l, i, j, values)
    /\ lsnap' = l'
    /\ lastOp' = "list.__setslice__"
    /\ UNCHANGED <<d, dsnap, scanVars, codecVars>>

\* MutableList.__delitem__
ListDelItem ==
    /\ \E i \in 1..Len(l) : l' = Splice(l, i - 1, i, <<>>)
    /\ lsnap' = l'
    /\ lastOp' = "list.__delitem__"
    /\ UNCHANGED <<d, dsnap, scanVars, codecVars>>

\* MutableList.__delslice__
ListDelSlice ==
    /\ \E i \in 0..Len(l), j \in 0..Len(l) :
        i <= j /\ l' = Splice(l, i, j, <<>>)
    /\ lsnap' = l'
    /\ lastOp' = "list.__delslice__"
    /\ UNCHANGED <<d, dsnap, scanVars, codecVars>>

\* MutableList.append
ListAppend ==
    /\ Len(l) < MaxListLen
    /\ \E v \in Vals : l' = Append(l, v)
    /\ lsnap' = l'
    /\ lastOp' = "list.append"
    /\ UNCHANGED <<d, dsnap, scanVars, codecVars>>

\* MutableList.insert
ListInsert ==
    /\ Len(l) < MaxListLen
    /\ \E i \in 0..Len(l), v \in Vals : l' = Splice(l, i, i, <<v>>)
    /\ lsnap' = l'
    /\ lastOp' = "list.insert"
    /\ UNCHANGED <<d, dsnap, scanVars, codecVars>>

\* MutableList.extend
ListExtend ==
    /\ \E values \in Lists :
        Len(l) + Len(values) <= MaxListLen /\ l' = l \o values
    /\ lsnap' = l'
    /\ lastOp' = "list.extend"
    /\ UNCHANGED <<d, dsnap, scanVars, codecVars>>

\* MutableList.pop
ListPop ==
    /\ \E i \in 1..Len(l) : l' = Splice(l, i - 1, i, <<>>)
    /\ lsnap' = l'
    /\ lastOp' = "list.pop"
    /\ UNCHANGED <<d, dsnap, scanVars, codecVars>>

\* MutableList.remove: the first occurrence of value
ListRemove ==
    /\ \E v \in Vals :
        /\ \E i \in 1..Len(l) : l[i] = v
        /\ LET k == CHOOSE i \in 1..Len(l) :
                        l[i] = v /\ \A j \in 1..(i - 1) : l[j] # v
           IN  l' = Splice(l, k - 1, k, <<>>)
    /\ lsnap' = l'
    /\ lastOp' = "list.remove"
    /\ UNCHANGED <<d, dsnap, scanVars, codecVars>>

\* list.sort, not overridden by MutableList: no changed() call
ListSort ==
    /\ l' = Sorted(l)
    /\ lastOp' = "list.sort"
    /\ UNCHANGED <<d, dsnap, lsnap, scanVars, codecVars>>

\* list.reverse, not overridden
ListReverse ==
    /\ l' = Reversed(l)
    /\ lastOp' = "list.reverse"
    /\ UNCHANGED <<d, dsnap, lsnap, scanVars, codecVars>>

\* list.__iadd__ (l += values), not overridden
ListIAdd ==
    /\ \E values \in Lists :
        Len(l) + Len(values) <= MaxListLen /\ l' = l \o values
    /\ lastOp' = "list.__iadd__"
    /\ UNCHANGED <<d, dsnap, lsnap, scanVars, codecVars>>

CodecIdle ==
    /\ cinput = NoneValue /\ encoded = NoneValue /\ decoded = NoneValue
    /\ cpc = "idle"

MutIdle ==
    /\ d = EmptyDict /\ dsnap = EmptyDict /\ l = <<>> /\ lsnap = <<>>
    /\ lastOp = "none"

\* State at the call safer_yield_per(query, id_field, start_id, count).
ScanStart(fields, alts) ==
    /\ idField \in fields
    /\ altMap \in alts
    /\ \E S \in SUBSET Ids : source = {Row(i, altMap) : i \in S}
    /\ startId \in 0..(MaxId + 1)
    /\ count \in 1..MaxCount
    /\ cur_id = startId
    /\ results = <<>>
    /\ idx = 0
    /\ pc = "fetch"
    /\ yielded = <<>>
    /\ fetchLog = <<>>
    /\ inserted = {}
    /\ mutations = 0

\* Scans whose windowing column is the id (id_field is Model.id).
InitScan == ScanStart({"id"}, AltMaps) /\ CodecIdle /\ MutIdle
NextScan == Fetch \/ Yield \/ Advance
SpecScan == InitScan /\ [][NextScan]_vars
\* The consumer keeps pulling from the generator.
FairSpecScan == SpecScan /\ WF_vars(NextScan)

\* Scans over any windowing column.
InitField == ScanStart({"id", "alt"}, AltMaps) /\ CodecIdle /\ MutIdle
SpecField == InitField /\ [][NextScan]_vars

\* Scans over the id while other transactions insert and delete rows.
InitConc == ScanStart({"id"}, {IdColumn}) /\ CodecIdle /\ MutIdle
NextConc == Fetch \/ Yield \/ Advance \/ InsertRow \/ DeleteRow
SpecConc == InitConc /\ [][NextConc]_vars

ScanIdle ==
    /\ altMap = IdColumn /\ source = {} /\ idField = "id" /\ startId = 0
    /\ count = 1 /\ cur_id = 0 /\ results = <<>> /\ idx = 0 /\ pc = "idle"
    /\ yielded = <<>> /\ fetchLog = <<>> /\ inserted = {} /\ mutations = 0

\* The codec round trip on the sample inputs.
InitCodec ==
    /\ cinput \in CodecInputs
    /\ encoded = NoneValue /\ decoded = NoneValue /\ cpc = "start"
    /\ ScanIdle /\ MutIdle
NextCodec == Encode \/ Decode
SpecCodec == InitCodec /\ [][NextCodec]_vars

\* One MutableDict and one MutableList, as coerce builds them from a plain
\* dict and a plain list, and every mutator a caller can invoke on them.
InitMutable ==
    /\ d \in Dicts /\ dsnap = d
    /\ l \in Lists /\ lsnap = l
    /\ lastOp = "coerce"
    /\ ScanIdle /\ CodecIdle
NextMutable ==
    \/ DictSetItem \/ DictDelItem \/ DictUpdate \/ DictSetState
    \/ DictClear \/ DictPop \/ DictPopItem \/ DictSetDefault
    \/ ListSetItem \/ ListSetSlice \/ ListDelItem \/ ListDelSlice
    \/ ListAppend \/ ListInsert \/ ListExtend \/ ListPop \/ ListRemove
    \/ ListSort \/ ListReverse \/ ListIAdd
SpecMutable == InitMutable /\ [][NextMutable]_vars

(***************************************************************************)
(* Properties of safer_yield_per                                           *)
(***************************************************************************)
Last(s) == s[Len(s)]
IdsOf(s) == [i \in 1..Len(s) |-> s[i].id]
KeysOf(s) == [i \in 1..Len(s) |-> Key(s[i], idField)]
StrictlyAscending(s) == \A i, j \in 1..Len(s) : i < j => s[i] < s[j]
RECURSIVE Flatten(_)
Flatten(log) ==
    IF log = <<>> THEN <<>> ELSE log[1].rows \o Flatten(Tail(log))

\* C1: over an unmodified source windowed by its unique integer id, the scan
\* yields rows in strictly ascending key order, never a row below start_id,
\* and when it has ended it has yielded every row with key >= start_id
\* (ascending order makes "exactly once" follow), for every count and every
\* placement of gaps.
C1_EveryRowOnceAscending ==
    /\ StrictlyAscending(KeysOf(yielded))
    /\ \A i \in 1..Len(yielded) :
        yielded[i] \in source /\ Key(yielded[i], idField) >= startId
    /\ pc = "done" =>
        \A r \in source :
            Key(r, idField) >= startId => \E i \in 1..Len(yielded) : yielded[i] = r

C1_Witness ==
    /\ pc = "done"
    /\ {r.id : r \in source} = {1, 3, 5}
    /\ startId = 2
    /\ count = 1
    /\ IdsOf(yielded) = <<3, 5>>

C3Case ==
    /\ idField = "id"
    /\ {r.id : r \in source} = 1..5
    /\ startId = 1
    /\ count = 2

\* C3 as stated: with count 2 over the keys 1..5 from start 1, the finished
\* scan has yielded 1,2,3,4,5 in order and issued exactly 3 fetches.
C3_ThreeFetches ==
    (C3Case /\ pc = "done") =>
        (IdsOf(yielded) = <<1, 2, 3, 4, 5>> /\ Len(fetchLog) = 3)

\* C3 amended: the finished scan has yielded 1,2,3,4,5 in order and issued
\* exactly 4 fetches, whose windows are [1,2], [3,4], [5] and the empty
\* window that ends the scan.
C3_FourFetches ==
    (C3Case /\ pc = "done") =>
        /\ IdsOf(yielded) = <<1, 2, 3, 4, 5>>
        /\ Len(fetchLog) = 4
        /\ [i \in 1..4 |-> IdsOf(fetchLog[i].rows)] =
               <<(<<1, 2>>), (<<3, 4>>), (<<5>>), (<<>>)>>

C3_Witness == C3Case /\ pc = "done" /\ Len(yielded) = 5

NoneAtOrAbove == \A r \in source : Key(r, idField) < startId

\* C4: when no row has key >= start_id (empty source, or every key below
\* start_id), the first fetch ends the scan: nothing is yielded and exactly
\* one fetch is issued.
C4_EmptyScanOneFetch ==
    (NoneAtOrAbove /\ fetchLog # <<>>) =>
        (pc = "done" /\ yielded = <<>> /\ Len(fetchLog) = 1)

C4_Witness ==
    /\ NoneAtOrAbove /\ source # {} /\ pc = "done" /\ Len(fetchLog) = 1

C8_CursorFollowsIdField ==
    \A i \in 2..Len(fetchLog) :
        fetchLog[i].cur = Key(Last(fetchLog[i - 1].rows), idField) + 1

\* C9: when the consumer keeps pulling, the scan over an unmodified source
\* windowed by id ends, and it ends only right after a fetch that returned no
\* rows: every non-empty fetch, short or full, is followed by another fetch.
C9_EndsOnlyOnEmptyFetch ==
    /\ <>(pc = "done")
    /\ [](pc = "done" =>
            /\ fetchLog # <<>>
            /\ Last(fetchLog).rows = <<>>
            /\ \A i \in 1..(Len(fetchLog) - 1) : fetchLog[i].rows # <<>>)

C9_Witness ==
    /\ pc = "done"
    /\ \E i \in 1..Len(fetchLog) :
        fetchLog[i].rows # <<>> /\ Len(fetchLog[i].rows) < count

\* C10: while other transactions insert and delete rows, the cursor strictly
\* increases from one fetch to the next, the yielded keys strictly increase
\* (no row is yielded twice), a row inserted below the cursor is never
\* yielded afterwards, and every row present at a fetch with its key between
\* the cursor and the last key fetched is in that window and is yielded.
C10_ConcurrentMutation ==
    /\ [](/\ \A i \in 2..Len(fetchLog) : fetchLog[i].cur > fetchLog[i - 1].cur
          /\ StrictlyAscending(KeysOf(yielded))
          /\ pc \in {"yield", "advance"} =>
                yielded = Flatten(SubSeq(fetchLog, 1, Len(fetchLog) - 1))
                          \o SubSeq(results, 1, idx)
          /\ pc \in {"fetch", "done"} => yielded = Flatten(fetchLog))
    /\ [][/\ Len(yielded') > Len(yielded) =>
                \A x \in inserted :
                    Key(x.row, idField) < x.cur => Last(yielded') # x.row
          /\ fetchLog' # fetchLog =>
                \A r \in source :
                    (/\ results' # <<>>
                     /\ Key(r, idField) >= cur_id
                     /\ Key(r, idField) <= Key(Last(results'), idField))
                    => \E i \in 1..Len(results') : results'[i] = r]_vars

C10_Witness ==
    /\ pc = "done"
    /\ \E x \in inserted : Key(x.row, idField) < x.cur /\ x.cur > startId
    /\ \E y \in inserted :
        /\ Key(y.row, idField) >= y.cur
        /\ \E i \in 1..Len(yielded) : yielded[i] = y.row

(***************************************************************************)
(* Properties of the codec                                                 *)
(***************************************************************************)
\* C2: for every 16-byte value, zero and values with a zero high word
\* included, int128_to_b36 returns a string and b36_to_bin of that string is
\* the 16 bytes again.
C2_RoundTrip ==
    (cinput.kind = "bytes" /\ Len(cinput.bytes) = IdBytes) =>
        /\ cpc # "start" => encoded.kind = "str"
        /\ cpc = "decoded" => decoded = BytesValue(cinput.bytes)

C2_Witness ==
    /\ cpc = "decoded"
    /\ cinput = BytesValue(Zeros(IdBytes))
    /\ encoded = StrValue(<<"0">>)
    /\ decoded = BytesValue(Zeros(IdBytes))

\* C6: int128_to_b36 returns None for None and for the empty byte string,
\* raises AssertionError for a non-empty input that is not 16 bytes long, and
\* returns a string (not None) for every 16-byte input.
C6_EncodeInputContract ==
    cpc # "start" =>
        /\ (cinput.kind = "None" \/ cinput.bytes = <<>>) => encoded = NoneValue
        /\ (cinput.bytes # <<>> /\ Len(cinput.bytes) # IdBytes) =>
                encoded = Raise("AssertionError")
        /\ Len(cinput.bytes) = IdBytes =>
                encoded.kind = "str" /\ encoded.text # <<>>

C6_Witness ==
    /\ cpc = "encoded"
    /\ Len(cinput.bytes) = IdBytes + 1
    /\ encoded = Raise("AssertionError")

(***************************************************************************)
(* Properties of the tracked containers                                    *)
(***************************************************************************)
\* C7: after any sequence of operations, inherited mutators included, the
\* contents of a tracked container never differ from its contents at the
\* last changed() call.
C7_EveryMutationNotifies == d = dsnap /\ l = lsnap

====
